---------------------------- MODULE Spec2Model ----------------------------
(***************************************************************************)
(* Gemini-pulse: the session store, the streaming client, the live audio   *)
(* client and the input component, modelled as a state machine.            *)
(*                                                                         *)
(* React state is modelled the way closures see it: `sessions` is the      *)
(* value of the last committed render (what the identifier `sessions`      *)
(* evaluates to inside a handler), `pendingSessions` is the value the next *)
(* render will commit (the last rendered value with every queued update    *)
(* applied, in order).  A handler run by a user event commits before the   *)
(* next event (React flushes discrete events synchronously, effects        *)
(* included); an update queued from a promise continuation or an SDK       *)
(* callback is committed by a later task, the action Render.               *)
(*                                                                         *)
(* Text is a sequence of tokens, "" is <<>>.  An optional field is <<>>    *)
(* when absent and <<v>> when present.  Timestamps are left out: nothing   *)
(* reads them.                                                             *)
(***************************************************************************)
EXTENDS Integers, Sequences, FiniteSets, TLC

(***************************************************************************)
(* Bounds                                                                  *)
(***************************************************************************)
MaxIds == 4            \* crypto.randomUUID() calls in one behaviour
MaxChunks == 2         \* items one SDK response may carry

MaxLive == 2           \* startLiveMode calls that get past the isLive test
MaxTime == 2           \* seconds the session lasts
MaxSources == 2        \* audio buffers the server sends
MaxTranscript == 2     \* transcription pieces that accumulate in one turn
MaxFiles == 2          \* files in one selection
MaxReads == 2          \* selections being read at the same time
MaxAttachments == 2    \* pending attachments the input bar is let to hold

Languages == {"en", "pt"}
Null == 0

\* what the user types (" " is a blank)
Texts == { <<"h">> }
InputTexts == Texts \cup { <<" ">> }

\* the files the user may select: File.type and the base64 of the content
Files == { [type |-> "image/png", b64 |-> <<"QQ">>],
           [type |-> "image/gif", b64 |-> <<"Qg">>] }

\* inline images the SDK may return
Images == { [data |-> <<"Zw">>, mimeType |-> "image/png"],
            [data |-> <<"eg">>, mimeType |-> "image/jpeg"] }

\* what one item of an SDK response carries: the text it yields ("" when it
\* has none) and its inline images.  An item is a chunk of the stream
\* (text is chunk.text) or a part of the single result (text is part.text).
Items == { [text |-> t, images |-> <<>>] : t \in { <<>>, <<"a">>, <<"b">> } }
           \cup { [text |-> <<>>, images |-> <<g>>] : g \in Images }

\* LiveServerMessage.serverContent: the transcription texts, the duration of
\* the audio buffer of modelTurn.parts[0] (<<>> when there is none) and the
\* two flags
LiveMessages ==
  [ inputTranscription : { <<>>, << <<"v">> >> },
    outputTranscription : { <<>>, << <<"w">> >> },
    audio : { <<>>, <<1>>, <<2>> },
    interrupted : BOOLEAN,
    turnComplete : BOOLEAN ]

TextMessages == { m \in LiveMessages : m.audio = <<>> /\ ~m.interrupted }
AudioMessages == { m \in LiveMessages :
                     m.inputTranscription = <<>> /\ m.outputTranscription = <<>>
                       /\ ~m.turnComplete }

ItemSeqs == UNION { [1..n -> Items] : n \in 0..MaxChunks }

\* the response the session store is exercised with, cut off anywhere: the
\* stream yields "a", "b", "a", ...; the single result holds the parts
\* "a", an image, "b", "a", an image, ...
textItem(t) == [text |-> t, images |-> <<>>]
imageItem(g) == [text |-> <<>>, images |-> <<g>>]

streamItem(n) == IF n % 2 = 1 THEN textItem(<<"a">>) ELSE textItem(<<"b">>)

resultPart(n) ==
  IF n % 3 = 1 THEN textItem(<<"a">>)
  ELSE IF n % 3 = 2 THEN imageItem([data |-> <<"Zw">>, mimeType |-> "image/png"])
  ELSE textItem(<<"b">>)

resultParts(n) == [i \in 1..n |-> resultPart(i)]

(***************************************************************************)
(* Generic helpers                                                         *)
(***************************************************************************)
Map(s, F(_)) == [i \in DOMAIN s |-> F(s[i])]

Range(s) == {s[i] : i \in DOMAIN s}

RECURSIVE Concat(_)
Concat(ss) == IF ss = <<>> THEN <<>> ELSE Head(ss) \o Concat(Tail(ss))

Max(a, b) == IF a >= b THEN a ELSE b

(***************************************************************************)
(* translations[language]  (src/translations.ts is not part of the files   *)
(* at hand; every entry is a distinct string per language and key)         *)
(***************************************************************************)
translations(lang) ==
  [ welcome         |-> << "welcome:" \o lang >>,
    kidWelcome      |-> << "kidWelcome:" \o lang >>,
    newConversation |-> << "newConversation:" \o lang >> ]

(***************************************************************************)
(* types.ts                                                                *)
(***************************************************************************)
USER == "user"
MODEL == "model"
SYSTEM == "system"

\* interface Message (attachments absent is modelled as the empty list)
Message(id, role, content, atts, streaming) ==
  [ id |-> id, role |-> role, content |-> content, attachments |-> atts,
    generatedImage |-> <<>>, isStreaming |-> streaming ]

\* interface ChatSession
ChatSession(id, title, messages, kid) ==
  [ id |-> id, title |-> title, messages |-> messages, isKidMode |-> kid ]

VARIABLES
  sessions,          \* useState sessions, as last rendered
  pendingSessions,   \* sessions with the queued updates applied
  renderPending,     \* an update queued outside a user event awaits its render
  currentSessionId,  \* useState currentSessionId
  language,          \* useState language
  isLoading,         \* useState isLoading
  isLive,            \* useState isLive
  mounted,           \* the mount effects have run
  storage,           \* localStorage 'gemini_sessions': <<>> or <<json>>
  langStore,         \* localStorage 'gemini_lang': <<>> or <<lang>>
  nextId,            \* the next value of crypto.randomUUID()
  sends,             \* handleSendMessage calls in flight
  text,              \* ChatInput useState text
  attachments,       \* ChatInput useState attachments
  reads,             \* handleFileChange calls in flight
  lives,             \* startLiveMode calls past the isLive test, with their
                     \* closure (currentSessionId, outputCtx) and live session;
                     \* stopSeen records that stopLiveMode ran after the call
  liveSessionRef,    \* liveSessionRef.current: Null or an index of lives
  transcriptionRef,  \* transcriptionRef.current
  nextStartTimeRef,  \* nextStartTimeRef.current
  audioSourcesRef,   \* audioSourcesRef.current: indices of scheduled
  scheduled,         \* every source created by onmessage, in start() order
  decoding,          \* onmessage calls waiting at `await decodeAudioData`
  speaking,          \* sources started by playResponseAudio, still playing
  now                \* wall clock, in seconds

vars == << sessions, pendingSessions, renderPending, currentSessionId, language,
           isLoading, isLive, mounted, storage, langStore, nextId, sends,
           text, attachments, reads, lives, liveSessionRef, transcriptionRef,
           nextStartTimeRef, audioSourcesRef, scheduled, decoding, speaking, now >>

liveVars == << lives, liveSessionRef, transcriptionRef, nextStartTimeRef,
               audioSourcesRef, scheduled, decoding, now >>

storeVars == << sessions, pendingSessions, renderPending, currentSessionId,
                language, storage, langStore >>
inputVars == << text, attachments, reads >>

(***************************************************************************)
(* localStorage                                                            *)
(***************************************************************************)
\* JSON.stringify / JSON.parse of a session list: every modelled field is a
\* string, a boolean or an array, an absent field stays absent
JSONstringify(ss) == ss
JSONparse(item) == item

\* the session list a previous visit may have left under 'gemini_sessions'
\* (ids 91.. stand for the UUIDs of that visit): a fresh session, or one
\* whose history holds an attachment
SavedLists ==
  { << ChatSession(91, translations("en").newConversation,
         << Message(92, MODEL, translations("en").welcome, <<>>, <<>>) >>, FALSE) >> }
  \cup
  { << ChatSession(91, <<"h">>,
         << Message(92, MODEL, translations("en").welcome, <<>>, <<>>),
            Message(93, USER, <<"h">>,
                    << [mimeType |-> "image/png", data |-> <<"QQ">>,
                        url |-> <<"data:", "image/png", ";base64", ",", "QQ">>] >>,
                    <<>>),
            Message(94, MODEL, <<"a">>, <<>>, <<FALSE>>) >>, FALSE) >> }

(***************************************************************************)
(* Session reducers (App.tsx)                                              *)
(***************************************************************************)
\* Array.prototype.find on the id: <<>> for undefined, else the first match
find(ss, id) ==
  LET hits == { i \in DOMAIN ss : ss[i].id = id }
  IN IF hits = {} THEN <<>>
     ELSE << ss[CHOOSE i \in hits : \A j \in hits : i <= j] >>

\* the welcome effect writing the standard greeting whatever the mode
welcomeUpdateStandard(prev, cur, lang) ==
  LET upd(s) ==
        IF s.id = cur /\ Len(s.messages) = 1
          THEN [s EXCEPT !.messages =
                  << [s.messages[1] EXCEPT !.content = translations(lang).welcome] >>]
          ELSE s
  IN Map(prev, upd)

\* the updater of the welcome effect, App.tsx 102-112
welcomeUpdate(prev, cur, lang) ==
  LET upd(s) ==
        IF s.id = cur /\ Len(s.messages) = 1
          THEN [s EXCEPT !.messages =
                  << [s.messages[1] EXCEPT !.content =
                        IF s.isKidMode THEN translations(lang).kidWelcome
                                       ELSE translations(lang).welcome] >>]
          ELSE s
  IN Map(prev, upd)

\* createNewSession starting the new session in kid mode
newSessionKid(id, msgId, lang) ==
  ChatSession(id, translations(lang).newConversation,
              << Message(msgId, MODEL, translations(lang).kidWelcome, <<>>, <<>>) >>,
              TRUE)

\* createNewSession reusing the id of the saved session
newSessionReusedId(id, msgId, lang) ==
  ChatSession(91, translations(lang).newConversation,
              << Message(msgId, MODEL, translations(lang).welcome, <<>>, <<>>) >>,
              FALSE)

\* the new session of createNewSession, App.tsx 306-312
newSession(id, msgId, lang) ==
  ChatSession(id, translations(lang).newConversation,
              << Message(msgId, MODEL, translations(lang).welcome, <<>>, <<>>) >>,
              FALSE)

\* the updater of toggleKidMode, App.tsx 319-334
toggleUpdate(prev, cur, lang) ==
  LET upd(s) ==
        IF s.id = cur
          THEN LET nextMode == ~s.isKidMode
               IN [s EXCEPT !.isKidMode = nextMode,
                            !.messages =
                               IF Len(s.messages) = 1
                                 THEN << [s.messages[1] EXCEPT !.content =
                                            IF nextMode THEN translations(lang).kidWelcome
                                                        ELSE translations(lang).welcome] >>
                                 ELSE s.messages]
          ELSE s
  IN Map(prev, upd)

\* sessions.filter(s => s.id !== id), App.tsx 339
filterOut(ss, id) == SelectSeq(ss, LAMBDA s : s.id # id)

(***************************************************************************)
(* Commit: the render that follows a state change, with its effects.       *)
(* ss, cur, lang are the new state values; setCalled tells whether         *)
(* setSessions was called (a new array, so the persist effect reruns).     *)
(* The welcome effect reruns when language or currentSessionId changed;    *)
(* its own setSessions leads to one more render and persist.               *)
(***************************************************************************)
Commit(ss, cur, lang, setCalled) ==
  LET depsChanged == (cur # currentSessionId) \/ (lang # language)
      welcomeRuns == depsChanged /\ cur # Null
      final == IF welcomeRuns THEN welcomeUpdate(ss, cur, lang) ELSE ss
      persistRuns == setCalled \/ welcomeRuns \/ renderPending
  IN /\ sessions' = final
     /\ pendingSessions' = final
     /\ renderPending' = FALSE
     /\ currentSessionId' = cur
     /\ language' = lang
     /\ storage' = IF persistRuns /\ Len(final) > 0
                     THEN << JSONstringify(final) >> ELSE storage
     /\ langStore' = IF welcomeRuns THEN << lang >> ELSE langStore

Init ==
  /\ sessions = <<>>
  /\ pendingSessions = <<>>
  /\ renderPending = FALSE
  /\ currentSessionId = Null
  /\ language = "en"
  /\ isLoading = FALSE
  /\ isLive = FALSE
  /\ mounted = FALSE
  /\ storage \in {<<>>} \cup { << JSONstringify(l) >> : l \in SavedLists }
  /\ langStore \in {<<>>} \cup { <<l>> : l \in Languages \ {"en"} }
  /\ nextId = 1
  /\ sends = <<>>
  /\ text = <<>>
  /\ attachments = <<>>
  /\ reads = <<>>
  /\ lives = <<>>
  /\ liveSessionRef = Null
  /\ transcriptionRef = [input |-> <<>>, output |-> <<>>]
  /\ nextStartTimeRef = 0
  /\ audioSourcesRef = {}
  /\ scheduled = <<>>
  /\ decoding = <<>>
  /\ speaking = 0
  /\ now = 0

\* useEffect(..., []) at mount, App.tsx 82-96, with the renders it causes
Initialize ==
  /\ ~mounted
  /\ mounted' = TRUE
  /\ LET lang == IF langStore # <<>> THEN langStore[1] ELSE language
     IN IF storage # <<>>
          THEN LET parsed == JSONparse(storage[1])
               IN /\ Commit(parsed,
                            IF Len(parsed) > 0 THEN parsed[1].id ELSE currentSessionId,
                            lang, TRUE)
                  /\ nextId' = nextId
          ELSE \* createNewSession() of the first render: language is still 'en'
               /\ Commit(<< newSession(nextId, nextId + 1, language) >> \o pendingSessions,
                         nextId, lang, TRUE)
               /\ nextId' = nextId + 2
  /\ UNCHANGED << isLoading, isLive, liveVars, speaking, sends, inputVars >>

\* createNewSession, App.tsx 305-316
createNewSession ==
  /\ mounted
  /\ nextId + 1 <= MaxIds
  /\ Commit(<< newSession(nextId, nextId + 1, language) >> \o pendingSessions,
            nextId, language, TRUE)
  /\ nextId' = nextId + 2
  /\ UNCHANGED << isLoading, isLive, liveVars, speaking, mounted, sends, inputVars >>

\* onClick of a sidebar entry, App.tsx 397
selectSession(id) ==
  /\ mounted
  /\ id # currentSessionId
  /\ Commit(pendingSessions, id, language, FALSE)
  /\ UNCHANGED << isLoading, isLive, liveVars, speaking, mounted, nextId, sends, inputVars >>

\* onClick of a language button, App.tsx 412
setLanguage(l) ==
  /\ mounted
  /\ l # language
  /\ Commit(pendingSessions, currentSessionId, l, FALSE)
  /\ UNCHANGED << isLoading, isLive, liveVars, speaking, mounted, nextId, sends, inputVars >>

\* toggleKidMode, App.tsx 318-335
toggleKidMode ==
  /\ mounted
  /\ Commit(toggleUpdate(pendingSessions, currentSessionId, language),
            currentSessionId, language, TRUE)
  /\ UNCHANGED << isLoading, isLive, liveVars, speaking, mounted, nextId, sends, inputVars >>

\* deleteSession leaving the selection as it is
deleteSessionKeepsSelection(id) ==
  /\ mounted
  /\ Commit(filterOut(sessions, id), currentSessionId, language, TRUE)
  /\ UNCHANGED << isLoading, isLive, liveVars, speaking, mounted, nextId, sends, inputVars >>

\* deleteSession, App.tsx 337-342: the new list is computed from the rendered
\* `sessions` and set as a value, replacing whatever the queue held
deleteSession(id) ==
  /\ mounted
  /\ LET updated == filterOut(sessions, id)
     IN Commit(updated,
               IF currentSessionId = id
                 THEN (IF Len(updated) > 0 THEN updated[1].id ELSE Null)
                 ELSE currentSessionId,
               language, TRUE)
  /\ UNCHANGED << isLoading, isLive, liveVars, speaking, mounted, nextId, sends, inputVars >>

(***************************************************************************)
(* ChatInput.tsx                                                           *)
(***************************************************************************)
\* String.prototype.trim
RECURSIVE trimStart(_)
trimStart(t) == IF t # <<>> /\ Head(t) = " " THEN trimStart(Tail(t)) ELSE t

RECURSIVE trimEnd(_)
trimEnd(t) ==
  IF t # <<>> /\ t[Len(t)] = " " THEN trimEnd(SubSeq(t, 1, Len(t) - 1)) ELSE t

trim(t) == trimEnd(trimStart(t))

\* FileReader.readAsDataURL: "data:<type>;base64,<payload>"
readAsDataURL(file) == << "data:", file.type, ";base64", "," >> \o file.b64

\* String.prototype.split(',')
RECURSIVE split(_)
split(t) ==
  IF \A i \in DOMAIN t : t[i] # "," THEN << t >>
  ELSE LET k == CHOOSE i \in DOMAIN t :
                  t[i] = "," /\ \A j \in DOMAIN t : t[j] = "," => i <= j
       IN << SubSeq(t, 1, k - 1) >> \o split(SubSeq(t, k + 1, Len(t)))

\* the attachment with the head of the data URL taken for the payload
toAttachmentHead(file) ==
  LET result == readAsDataURL(file)
  IN [ mimeType |-> file.type, data |-> split(result)[1], url |-> result ]

\* the attachment reader.onload pushes, ChatInput.tsx 55-61
toAttachment(file) ==
  LET result == readAsDataURL(file)
  IN [ mimeType |-> file.type, data |-> split(result)[2], url |-> result ]

\* onChange of the textarea, ChatInput.tsx 119 (the textarea is disabled in
\* live mode, 122)
onChangeText(v) ==
  /\ mounted
  /\ ~isLive
  /\ v # text
  /\ text' = v
  /\ UNCHANGED << storeVars, isLoading, isLive, liveVars, speaking, mounted, nextId, sends,
                  attachments, reads >>

\* handleFileChange up to its first await, ChatInput.tsx 45-67
handleFileChange(files) ==
  /\ mounted
  /\ Len(reads) < MaxReads
  /\ Len(attachments) + Len(files) <= MaxAttachments
  /\ IF Len(files) = 0
       THEN UNCHANGED << attachments, reads >>
       ELSE /\ reads' = Append(reads, [files |-> files, newAttachments |-> <<>>])
            /\ UNCHANGED attachments
  /\ UNCHANGED << storeVars, isLoading, isLive, liveVars, speaking, mounted, nextId, sends, text >>

\* reader.onload of the file being read and the code after `await promise`,
\* ChatInput.tsx 55-71
onload(r) ==
  /\ r \in DOMAIN reads
  /\ LET rd == reads[r]
         file == rd.files[Len(rd.newAttachments) + 1]
         newAttachments == Append(rd.newAttachments, toAttachment(file))
     IN IF Len(newAttachments) < Len(rd.files)
          THEN /\ reads' = [reads EXCEPT ![r].newAttachments = newAttachments]
               /\ UNCHANGED attachments
          ELSE /\ attachments' = attachments \o newAttachments
               /\ reads' = [i \in 1..(Len(reads) - 1) |->
                              IF i < r THEN reads[i] ELSE reads[i + 1]]
  /\ UNCHANGED << storeVars, isLoading, isLive, liveVars, speaking, mounted, nextId, sends, text >>

\* removeAttachment, ChatInput.tsx 74-76
removeAttachment(index) ==
  /\ index \in DOMAIN attachments
  /\ attachments' = [i \in 1..(Len(attachments) - 1) |->
                       IF i < index THEN attachments[i] ELSE attachments[i + 1]]
  /\ UNCHANGED << storeVars, isLoading, isLive, liveVars, speaking, mounted, nextId, sends, text,
                  reads >>

(***************************************************************************)
(* geminiService.ts                                                        *)
(***************************************************************************)
\* hasImages, geminiService.ts 15
hasImages(messages) ==
  \E i \in DOMAIN messages : Len(messages[i].attachments) > 0

\* contents, geminiService.ts 18-38
contents(messages) ==
  LET part(a) == [ inlineData |-> << [mimeType |-> a.mimeType, data |-> a.data] >>,
                   text |-> <<>> ]
      content(m) ==
        [ role |-> IF m.role = USER THEN "user" ELSE "model",
          parts |-> << [inlineData |-> <<>>, text |-> << m.content >>] >>
                      \o Map(m.attachments, part) ]
  IN Map(SelectSeq(messages, LAMBDA m : m.role # SYSTEM), content)

(***************************************************************************)
(* handleSendMessage (App.tsx 257-303) and the callbacks it passes         *)
(***************************************************************************)
\* the updater of the first setSessions, App.tsx 264-269
sendUpdate(prev, cur, userMessage, initialModelMessage, txt, lang) ==
  LET upd(s) ==
        IF s.id = cur
          THEN [s EXCEPT !.messages = s.messages \o << userMessage, initialModelMessage >>,
                         !.title = IF s.title = translations(lang).newConversation
                                     THEN SubSeq(txt, 1, IF Len(txt) < 30 THEN Len(txt) ELSE 30)
                                     ELSE s.title]
          ELSE s
  IN Map(prev, upd)

\* onChunk updating whichever session is current when the chunk arrives
chunkUpdateCurrent(prev, cur, modelMessageId, fullResponse) ==
  LET updM(m) == IF m.id = modelMessageId THEN [m EXCEPT !.content = fullResponse] ELSE m
      upd(s) == IF s.id = currentSessionId
                  THEN [s EXCEPT !.messages = Map(s.messages, updM)] ELSE s
  IN Map(prev, upd)

\* the updater of onChunk, App.tsx 279-282
chunkUpdate(prev, cur, modelMessageId, fullResponse) ==
  LET updM(m) == IF m.id = modelMessageId THEN [m EXCEPT !.content = fullResponse] ELSE m
      upd(s) == IF s.id = cur THEN [s EXCEPT !.messages = Map(s.messages, updM)] ELSE s
  IN Map(prev, upd)

\* the updater of onImageGenerated, App.tsx 284-287
imageUpdate(prev, cur, modelMessageId, image) ==
  LET updM(m) == IF m.id = modelMessageId THEN [m EXCEPT !.generatedImage = <<image>>] ELSE m
      upd(s) == IF s.id = cur THEN [s EXCEPT !.messages = Map(s.messages, updM)] ELSE s
  IN Map(prev, upd)

\* the updater after the response, App.tsx 290-293
doneUpdate(prev, cur, modelMessageId) ==
  LET updM(m) == IF m.id = modelMessageId THEN [m EXCEPT !.isStreaming = <<FALSE>>] ELSE m
      upd(s) == IF s.id = cur THEN [s EXCEPT !.messages = Map(s.messages, updM)] ELSE s
  IN Map(prev, upd)

\* onChunk showing the last chunk instead of the accumulated text
onChunkLastOnly(st, chunk) ==
  [ call |-> [st.call EXCEPT !.fullResponse = chunk,
                             !.onChunkCalls = Append(@, chunk)],
    ss |-> chunkUpdate(st.ss, st.call.sid, st.call.mid, chunk) ]

\* onChunk(chunk), App.tsx 277-283, on a call record and the queued sessions
onChunk(st, chunk) ==
  LET full == st.call.fullResponse \o chunk
  IN [ call |-> [st.call EXCEPT !.fullResponse = full,
                               !.onChunkCalls = Append(@, chunk)],
       ss |-> chunkUpdate(st.ss, st.call.sid, st.call.mid, full) ]

\* onImageGenerated(data, mimeType), App.tsx 283-288
onImageGenerated(st, image) ==
  [ call |-> [st.call EXCEPT !.onImageCalls = Append(@, image)],
    ss |-> imageUpdate(st.ss, st.call.sid, st.call.mid, image) ]

\* the loop body without the `if (text)` test
streamBodyNoTest(st, chunk) == onChunk(st, chunk.text)

\* one round of `for await (const chunk of stream)`, geminiService.ts 79-85
streamBody(st, chunk) ==
  IF chunk.text # <<>> THEN onChunk(st, chunk.text) ELSE st

\* one round of `for (const part of candidate.content.parts)`,
\* geminiService.ts 57-64
partBody(st, part) ==
  LET afterText == IF part.text # <<>> THEN onChunk(st, part.text) ELSE st
  IN IF part.images # <<>> THEN onImageGenerated(afterText, part.images[1])
     ELSE afterText

RECURSIVE partsLoop(_, _)
partsLoop(st, parts) ==
  IF parts = <<>> THEN st ELSE partsLoop(partBody(st, Head(parts)), Tail(parts))

removeAt(s, k) == [i \in 1..(Len(s) - 1) |-> IF i < k THEN s[i] ELSE s[i + 1]]

\* handleSend without the isLoading test
handleSendWhileLoading ==
  /\ mounted
  /\ ~isLive
  /\ (trim(text) # <<>> \/ Len(attachments) > 0)
  /\ text' = <<>>
  /\ attachments' = <<>>
  /\ UNCHANGED << reads, isLive, liveVars, speaking, mounted >>
  /\ IF currentSessionId = Null
       THEN UNCHANGED << storeVars, isLoading, nextId, sends >>
       ELSE /\ nextId + 1 <= MaxIds
            /\ LET userMessage == Message(nextId, USER, text, attachments, <<>>)
                   modelMessageId == nextId + 1
                   initialModelMessage == Message(modelMessageId, MODEL, <<>>, <<>>, <<TRUE>>)
                   sessionToUse == find(sessions, currentSessionId)
                   currentMessages ==
                     (IF sessionToUse # <<>> THEN sessionToUse[1].messages ELSE <<>>)
                       \o << userMessage >>
                   isKidMode == sessionToUse # <<>> /\ sessionToUse[1].isKidMode
               IN /\ Commit(sendUpdate(pendingSessions, currentSessionId, userMessage,
                                       initialModelMessage, text, language),
                            currentSessionId, language, TRUE)
                  /\ isLoading' = TRUE
                  /\ nextId' = nextId + 2
                  /\ sends' = Append(sends,
                       [ pc |-> "sdk", sid |-> currentSessionId, mid |-> modelMessageId,
                         fullResponse |-> <<>>, isKidMode |-> isKidMode,
                         hasImages |-> hasImages(currentMessages),
                         contents |-> contents(currentMessages),
                         sdkOut |-> <<>>, onChunkCalls |-> <<>>, onImageCalls |-> <<>> ])

\* handleSend (ChatInput.tsx 28-36) calling handleSendMessage up to the first
\* await inside generateStreamingResponse.  The send button and the textarea
\* are disabled in live mode (ChatInput.tsx 122, 141).
handleSend ==
  /\ mounted
  /\ ~isLive
  /\ (trim(text) # <<>> \/ Len(attachments) > 0) /\ ~isLoading
  /\ text' = <<>>
  /\ attachments' = <<>>
  /\ UNCHANGED << reads, isLive, liveVars, speaking, mounted >>
  /\ IF currentSessionId = Null
       THEN UNCHANGED << storeVars, isLoading, nextId, sends >>
       ELSE /\ nextId + 1 <= MaxIds
            /\ LET userMessage == Message(nextId, USER, text, attachments, <<>>)
                   modelMessageId == nextId + 1
                   initialModelMessage == Message(modelMessageId, MODEL, <<>>, <<>>, <<TRUE>>)
                   sessionToUse == find(sessions, currentSessionId)
                   currentMessages ==
                     (IF sessionToUse # <<>> THEN sessionToUse[1].messages ELSE <<>>)
                       \o << userMessage >>
                   isKidMode == sessionToUse # <<>> /\ sessionToUse[1].isKidMode
               IN /\ Commit(sendUpdate(pendingSessions, currentSessionId, userMessage,
                                       initialModelMessage, text, language),
                            currentSessionId, language, TRUE)
                  /\ isLoading' = TRUE
                  /\ nextId' = nextId + 2
                  /\ sends' = Append(sends,
                       [ pc |-> "sdk", sid |-> currentSessionId, mid |-> modelMessageId,
                         fullResponse |-> <<>>, isKidMode |-> isKidMode,
                         hasImages |-> hasImages(currentMessages),
                         contents |-> contents(currentMessages),
                         sdkOut |-> <<>>, onChunkCalls |-> <<>>, onImageCalls |-> <<>> ])

\* the stream yields a chunk, geminiService.ts 79-85
streamChunk(k, chunk) ==
  /\ k \in DOMAIN sends
  /\ sends[k].pc = "sdk" /\ ~sends[k].hasImages
  /\ Len(sends[k].sdkOut) < MaxChunks
  /\ LET st == streamBody([call |-> [sends[k] EXCEPT !.sdkOut = Append(@, chunk)],
                           ss |-> pendingSessions], chunk)
     IN /\ sends' = [sends EXCEPT ![k] = st.call]
        /\ pendingSessions' = st.ss
        /\ renderPending' = (renderPending \/ chunk.text # <<>>)
  /\ UNCHANGED << sessions, currentSessionId, language, storage, langStore,
                  isLoading, isLive, liveVars, speaking, mounted, nextId, inputVars >>

\* the stream ends, geminiService.ts 86
streamEnd(k) ==
  /\ k \in DOMAIN sends
  /\ sends[k].pc = "sdk" /\ ~sends[k].hasImages
  /\ sends' = [sends EXCEPT ![k].pc = "returned"]
  /\ UNCHANGED << storeVars, isLoading, isLive, liveVars, speaking, mounted, nextId, inputVars >>

\* generateContent resolves, geminiService.ts 55-66
imageResult(k, parts) ==
  /\ k \in DOMAIN sends
  /\ sends[k].pc = "sdk" /\ sends[k].hasImages
  /\ LET st == partsLoop([call |-> [sends[k] EXCEPT !.sdkOut = parts],
                          ss |-> pendingSessions], parts)
     IN /\ sends' = [sends EXCEPT ![k] = [st.call EXCEPT !.pc = "returned"]]
        /\ pendingSessions' = st.ss
        /\ renderPending' = (renderPending \/ st.call.onChunkCalls # <<>>
                                           \/ st.call.onImageCalls # <<>>)
  /\ UNCHANGED << sessions, currentSessionId, language, storage, langStore,
                  isLoading, isLive, liveVars, speaking, mounted, nextId, inputVars >>

\* the SDK call or the stream rejects, geminiService.ts 88-91
sdkError(k) ==
  /\ k \in DOMAIN sends
  /\ sends[k].pc = "sdk"
  /\ sends' = [sends EXCEPT ![k].pc = "thrown"]
  /\ UNCHANGED << storeVars, isLoading, isLive, liveVars, speaking, mounted, nextId, inputVars >>

\* the catch block taking the exchange back out of the session
sendResumeRollback(k) ==
  /\ k \in DOMAIN sends
  /\ \/ /\ sends[k].pc = "returned"
        /\ pendingSessions' = doneUpdate(pendingSessions, sends[k].sid, sends[k].mid)
        /\ renderPending' = TRUE
        /\ IF sends[k].isKidMode
             THEN /\ sends' = [sends EXCEPT ![k].pc = "tts"]
                  /\ UNCHANGED isLoading
             ELSE /\ sends' = removeAt(sends, k)
                  /\ isLoading' = FALSE
     \/ /\ sends[k].pc = "thrown"
        /\ sends' = removeAt(sends, k)
        /\ isLoading' = FALSE
        /\ pendingSessions' =
             [i \in DOMAIN pendingSessions |->
                [pendingSessions[i] EXCEPT !.messages =
                   SelectSeq(@, LAMBDA m : m.id # sends[k].mid /\ m.id # sends[k].mid - 1)]]
        /\ renderPending' = TRUE
  /\ UNCHANGED << sessions, currentSessionId, language, storage, langStore,
                  isLive, liveVars, speaking, mounted, nextId, inputVars >>

\* handleSendMessage after `await generateStreamingResponse`, App.tsx 290-302
sendResume(k) ==
  /\ k \in DOMAIN sends
  /\ \/ /\ sends[k].pc = "returned"
        /\ pendingSessions' = doneUpdate(pendingSessions, sends[k].sid, sends[k].mid)
        /\ renderPending' = TRUE
        /\ IF sends[k].isKidMode
             THEN /\ sends' = [sends EXCEPT ![k].pc = "tts"]
                  /\ UNCHANGED isLoading
             ELSE /\ sends' = removeAt(sends, k)
                  /\ isLoading' = FALSE
     \/ /\ sends[k].pc = "thrown"
        /\ sends' = removeAt(sends, k)
        /\ isLoading' = FALSE
        /\ UNCHANGED << pendingSessions, renderPending >>
  /\ UNCHANGED << sessions, currentSessionId, language, storage, langStore,
                  isLive, liveVars, speaking, mounted, nextId, inputVars >>

\* playResponseAudio settles and the finally block runs, App.tsx 300-302.
\* playResponseAudio (App.tsx 145-161) returns once source.start(0) was
\* called, the speech then plays on; it starts nothing when generateTTS gave
\* no audio or failed (the failure is caught).
ttsDone(k) ==
  /\ k \in DOMAIN sends
  /\ sends[k].pc = "tts"
  /\ sends' = removeAt(sends, k)
  /\ isLoading' = FALSE
  /\ \E started \in BOOLEAN : speaking' = IF started THEN speaking + 1 ELSE speaking
  /\ UNCHANGED << storeVars, isLive, liveVars, mounted, nextId, inputVars >>

\* a source started by playResponseAudio has played to its end
speechEnded ==
  /\ speaking > 0
  /\ speaking' = speaking - 1
  /\ UNCHANGED << storeVars, isLoading, isLive, liveVars, mounted, nextId, sends,
                  inputVars >>

(***************************************************************************)
(* Live mode (App.tsx 163-255)                                             *)
(***************************************************************************)
\* outputCtx.currentTime of the context created by call l
currentTime(l) == now - lives[l].created

\* audioSourcesRef.current.forEach(s => s.stop())
stopAll(srcs) ==
  [i \in DOMAIN srcs |->
     IF i \in audioSourcesRef THEN [srcs[i] EXCEPT !.stopped = TRUE] ELSE srcs[i]]

\* the session is open: connect() was called and the socket has not closed
isOpen(l) == lives[l].pc \in {"connecting", "open"}

\* stopLiveMode, App.tsx 163-171
stopLiveMode ==
  /\ lives' = [l \in DOMAIN lives |->
                 [lives[l] EXCEPT
                    !.pc = IF l = liveSessionRef /\ @ = "open" THEN "closing" ELSE @,
                    !.stopSeen = TRUE]]
  /\ liveSessionRef' = Null
  /\ scheduled' = stopAll(scheduled)
  /\ audioSourcesRef' = {}
  /\ isLive' = FALSE
  /\ UNCHANGED << transcriptionRef, nextStartTimeRef, decoding, now >>

\* startLiveMode up to `await getUserMedia`, App.tsx 173-185 (the header
\* button, App.tsx 464, and the button of the input bar, ChatInput.tsx 128)
startLiveMode ==
  /\ mounted
  /\ IF isLive
       THEN stopLiveMode
       ELSE /\ Len(lives) < MaxLive
            /\ lives' = Append(lives, [ pc |-> "mic", sid |-> currentSessionId,
                                        created |-> now, stopSeen |-> FALSE ])
            /\ UNCHANGED << isLive, liveSessionRef, transcriptionRef,
                            nextStartTimeRef, audioSourcesRef, scheduled, decoding,
                            now >>
  /\ UNCHANGED << storeVars, isLoading, mounted, nextId, sends, inputVars, speaking >>

\* getUserMedia resolves: setIsLive(true) and ai.live.connect, App.tsx 185-249
micGranted(l) ==
  /\ l \in DOMAIN lives /\ lives[l].pc = "mic"
  /\ isLive' = TRUE
  /\ lives' = [lives EXCEPT ![l].pc = "connecting"]
  /\ UNCHANGED << storeVars, isLoading, mounted, nextId, sends, inputVars,
                  liveSessionRef, transcriptionRef, nextStartTimeRef,
                  audioSourcesRef, scheduled, decoding, speaking, now >>

\* getUserMedia or connect rejects: the catch block, App.tsx 251-254
liveFailed(l) ==
  /\ l \in DOMAIN lives /\ lives[l].pc \in {"mic", "connecting"}
  /\ isLive' = FALSE
  /\ lives' = [lives EXCEPT ![l].pc = "failed"]
  /\ UNCHANGED << storeVars, isLoading, mounted, nextId, sends, inputVars,
                  liveSessionRef, transcriptionRef, nextStartTimeRef,
                  audioSourcesRef, scheduled, decoding, speaking, now >>

\* `liveSessionRef.current = await sessionPromise`, App.tsx 250
connected(l) ==
  /\ l \in DOMAIN lives /\ lives[l].pc = "connecting"
  /\ liveSessionRef' = l
  /\ lives' = [lives EXCEPT ![l].pc = "open"]
  /\ UNCHANGED << storeVars, isLoading, isLive, mounted, nextId, sends, inputVars,
                  transcriptionRef, nextStartTimeRef, audioSourcesRef, scheduled,
                  decoding, speaking, now >>

\* onclose, App.tsx 247: after close() or when the server ends the session
onclose(l) ==
  /\ l \in DOMAIN lives /\ lives[l].pc \in {"open", "closing"}
  /\ lives' = [lives EXCEPT ![l].pc = "closed"]
  /\ isLive' = FALSE
  /\ UNCHANGED << storeVars, isLoading, mounted, nextId, sends, inputVars,
                  liveSessionRef, transcriptionRef, nextStartTimeRef,
                  audioSourcesRef, scheduled, decoding, speaking, now >>

\* the turn appended to whichever session is current when it completes
turnUpdateCurrent(prev, cur, userMsg, modelMsg) ==
  LET upd(s) == IF s.id = currentSessionId
                  THEN [s EXCEPT !.messages = s.messages \o << userMsg, modelMsg >>]
                  ELSE s
  IN Map(prev, upd)

\* the updater of turnComplete, App.tsx 241
turnUpdate(prev, cur, userMsg, modelMsg) ==
  LET upd(s) == IF s.id = cur
                  THEN [s EXCEPT !.messages = s.messages \o << userMsg, modelMsg >>]
                  ELSE s
  IN Map(prev, upd)

\* nextStartTimeRef after line 219
readClock(l, next) == Max(next, currentTime(l))

\* an interrupt was handled: the sources and the calls still decoding that
\* were there before it are marked (the mark is not part of the program)
cutAll(q) == [i \in DOMAIN q |-> [q[i] EXCEPT !.cut = TRUE]]

\* onmessage from the statement after `await decodeAudioData`, App.tsx
\* 221-244; for a message without audio, from 230.  d is the call (its live
\* session, its message, the clock it read at 219), queue the calls that
\* wait behind it, acc what transcriptionRef.current holds.
onmessageRest(d, queue, acc) ==
  LET message == d.message
      hasAudio == message.audio # <<>>
      source == [ live |-> d.live, start |-> nextStartTimeRef,
                  duration |-> message.audio[1], readAt |-> d.readAt,
                  stopped |-> FALSE, cut |-> d.cut, first |-> d.first ]
      afterAudio ==
        IF hasAudio
          THEN [ next |-> nextStartTimeRef + message.audio[1],
                 srcs |-> Append(scheduled, source),
                 active |-> audioSourcesRef \cup {Len(scheduled) + 1} ]
          ELSE [ next |-> nextStartTimeRef, srcs |-> scheduled,
                 active |-> audioSourcesRef ]
      turn == message.turnComplete /\ (acc.input # <<>> \/ acc.output # <<>>)
  IN /\ IF message.interrupted
          THEN /\ scheduled' = cutAll([i \in DOMAIN afterAudio.srcs |->
                                  IF i \in afterAudio.active
                                    THEN [afterAudio.srcs[i] EXCEPT !.stopped = TRUE]
                                    ELSE afterAudio.srcs[i]])
               /\ audioSourcesRef' = {}
               /\ nextStartTimeRef' = 0
               /\ decoding' = cutAll(queue)
          ELSE /\ scheduled' = afterAudio.srcs
               /\ audioSourcesRef' = afterAudio.active
               /\ nextStartTimeRef' = afterAudio.next
               /\ decoding' = queue
     /\ IF turn
          THEN /\ nextId + 1 <= MaxIds
               /\ LET userMsg == Message(nextId, USER,
                                   IF acc.input # <<>> THEN acc.input
                                   ELSE <<"[Audio]">>, <<>>, <<>>)
                      modelMsg == Message(nextId + 1, MODEL,
                                   IF acc.output # <<>> THEN acc.output
                                   ELSE <<"[Audio Response]">>, <<>>, <<>>)
                  IN pendingSessions' =
                       turnUpdate(pendingSessions, lives[d.live].sid, userMsg, modelMsg)
               /\ renderPending' = TRUE
               /\ nextId' = nextId + 2
               /\ transcriptionRef' = [input |-> <<>>, output |-> <<>>]
          ELSE /\ transcriptionRef' = acc
               /\ UNCHANGED << pendingSessions, renderPending, nextId >>

\* onmessage, App.tsx 213-245, up to `await decodeAudioData` when the message
\* carries audio.  decodeAudioData has no await of its own: the rest of the
\* handler is a microtask, which runs before the next task but not before a
\* call of onmessage the SDK makes in the same task.
onmessage(l, message) ==
  /\ l \in DOMAIN lives /\ lives[l].pc = "open"
  /\ Len(transcriptionRef.input) + Len(message.inputTranscription) <= MaxTranscript
  /\ Len(transcriptionRef.output) + Len(message.outputTranscription) <= MaxTranscript
  /\ message.audio # <<>> => Len(scheduled) + Len(decoding) < MaxSources
  /\ LET accumulated ==
           [ input |-> transcriptionRef.input \o Concat(message.inputTranscription),
             output |-> transcriptionRef.output \o Concat(message.outputTranscription) ]
         d == [ live |-> l, message |-> message, readAt |-> currentTime(l),
                cut |-> FALSE,
                first |-> /\ \A i \in DOMAIN scheduled : scheduled[i].cut
                          /\ \A i \in DOMAIN decoding : decoding[i].cut ]
     IN IF message.audio # <<>>
          THEN /\ transcriptionRef' = accumulated
               /\ nextStartTimeRef' = readClock(l, nextStartTimeRef)
               /\ decoding' = Append(decoding, d)
               /\ UNCHANGED << scheduled, audioSourcesRef, pendingSessions,
                               renderPending, nextId >>
          ELSE onmessageRest(d, decoding, accumulated)
  /\ UNCHANGED << sessions, currentSessionId, language, storage, langStore,
                  isLoading, isLive, mounted, sends, inputVars, lives,
                  liveSessionRef, speaking, now >>

\* the handler that has waited longest at `await decodeAudioData` goes on
decoded ==
  /\ decoding # <<>>
  /\ onmessageRest(Head(decoding), Tail(decoding), transcriptionRef)
  /\ UNCHANGED << sessions, currentSessionId, language, storage, langStore,
                  isLoading, isLive, mounted, sends, inputVars, lives,
                  liveSessionRef, speaking, now >>

\* source.onended, App.tsx 227: the buffer has played to its end or was stopped
onended(i) ==
  /\ i \in DOMAIN scheduled
  /\ i \in audioSourcesRef
  /\ \/ scheduled[i].stopped
     \/ scheduled[i].start + scheduled[i].duration <= currentTime(scheduled[i].live)
  /\ audioSourcesRef' = audioSourcesRef \ {i}
  /\ UNCHANGED << storeVars, isLoading, isLive, mounted, nextId, sends, inputVars,
                  lives, liveSessionRef, transcriptionRef, nextStartTimeRef,
                  scheduled, decoding, speaking, now >>

\* a second passes
Tick ==
  /\ now < MaxTime
  /\ now' = now + 1
  /\ UNCHANGED << storeVars, isLoading, isLive, mounted, nextId, sends, inputVars,
                  lives, liveSessionRef, transcriptionRef, nextStartTimeRef,
                  audioSourcesRef, scheduled, decoding, speaking >>

\* the render scheduled by updates queued outside user events
Render ==
  /\ renderPending
  /\ Commit(pendingSessions, currentSessionId, language, TRUE)
  /\ UNCHANGED << isLoading, isLive, liveVars, speaking, mounted, nextId, sends, inputVars >>

Next ==
  \/ Initialize
  \/ createNewSession
  \/ \E i \in DOMAIN sessions : selectSession(sessions[i].id)
  \/ toggleKidMode
  \/ \E i \in DOMAIN sessions : deleteSession(sessions[i].id)
  \/ Render
  \/ \E v \in Texts : onChangeText(v)
  \/ handleSend
  \/ \E k \in DOMAIN sends : streamChunk(k, streamItem(Len(sends[k].sdkOut) + 1))
  \/ \E k \in DOMAIN sends : streamEnd(k)
  \/ \E k \in DOMAIN sends, n \in 0..MaxChunks : imageResult(k, resultParts(n))
  \/ \E k \in DOMAIN sends : sdkError(k)
  \/ \E k \in DOMAIN sends : sendResume(k)
  \/ \E k \in DOMAIN sends : ttsDone(k)
  \/ speechEnded

\* no language was saved: the session store keeps to 'en'
NoSavedLanguage == Init /\ langStore = <<>>

Spec == NoSavedLanguage /\ [][Next]_vars

(***************************************************************************)
(* The live audio client on its own: the life cycle of live sessions and   *)
(* the scheduling of the returned audio.                                   *)
(***************************************************************************)
\* the handlers waiting at `await decodeAudioData` go on before the next task
microtasksDone == decoding = <<>>

NextLive ==
  \/ microtasksDone /\ Initialize
  \/ microtasksDone /\ startLiveMode
  \/ microtasksDone /\ \E l \in DOMAIN lives : micGranted(l)
  \/ microtasksDone /\ \E l \in DOMAIN lives : liveFailed(l)
  \/ microtasksDone /\ \E l \in DOMAIN lives : connected(l)
  \/ microtasksDone /\ \E l \in DOMAIN lives : onclose(l)
  \/ \E l \in DOMAIN lives, m \in AudioMessages : onmessage(l, m)
  \/ decoded
  \/ microtasksDone /\ \E i \in DOMAIN scheduled : onended(i)
  \/ microtasksDone /\ Tick

\* a first visit: nothing in localStorage
FirstVisit == Init /\ storage = <<>> /\ langStore = <<>>

SpecLive == FirstVisit /\ [][NextLive]_vars


(***************************************************************************)
(* Every operation that draws an identifier, with one text chunk and one   *)
(* transcription message as inputs.                                        *)
(***************************************************************************)
OneChunk == { textItem(<<"a">>) }
TurnMessages == { m \in TextMessages :
                    m.turnComplete /\ m.inputTranscription # <<>>
                      /\ m.outputTranscription = <<>> }

NextIds ==
  \/ Initialize
  \/ createNewSession
  \/ toggleKidMode
  \/ \E i \in DOMAIN sessions : deleteSession(sessions[i].id)
  \/ Render
  \/ \E v \in Texts : onChangeText(v)
  \/ handleSend
  \/ \E k \in DOMAIN sends, c \in OneChunk : streamChunk(k, c)
  \/ \E k \in DOMAIN sends : streamEnd(k)
  \/ \E k \in DOMAIN sends : sendResume(k)
  \/ \E k \in DOMAIN sends : ttsDone(k)
  \/ speechEnded
  \/ (lives = <<>> /\ startLiveMode)     \* the voice button is clicked once
  \/ \E l \in DOMAIN lives : micGranted(l)
  \/ \E l \in DOMAIN lives : connected(l)
  \/ \E l \in DOMAIN lives, m \in TurnMessages : onmessage(l, m)

\* a return visit: one saved session, no saved language
ReturnVisit == Init /\ langStore = <<>> /\ storage # <<>>
                 /\ ~hasImages(storage[1][1].messages)

SpecIds == ReturnVisit /\ [][NextIds]_vars

(***************************************************************************)
(* Live turns: transcriptions accumulate and a completed turn is appended, *)
(* while the user moves between sessions.                                  *)
(***************************************************************************)
NextTurn ==
  \/ Initialize
  \/ createNewSession
  \/ \E i \in DOMAIN sessions : selectSession(sessions[i].id)
  \/ \E i \in DOMAIN sessions : deleteSession(sessions[i].id)
  \/ (lives = <<>> /\ startLiveMode)     \* the voice button is clicked once
  \/ \E l \in DOMAIN lives : micGranted(l)
  \/ \E l \in DOMAIN lives : connected(l)
  \/ \E l \in DOMAIN lives, m \in TextMessages : onmessage(l, m)
  \/ Render

SpecTurn == ReturnVisit /\ [][NextTurn]_vars

(***************************************************************************)
(* Languages: the session store with the language buttons and a saved      *)
(* language.                                                               *)
(***************************************************************************)
NextLang ==
  \/ Initialize
  \/ createNewSession
  \/ \E i \in DOMAIN sessions : selectSession(sessions[i].id)
  \/ \E l \in Languages : setLanguage(l)
  \/ toggleKidMode
  \/ \E i \in DOMAIN sessions : deleteSession(sessions[i].id)
  \/ \E v \in Texts : onChangeText(v)
  \/ handleSend
  \/ \E k \in DOMAIN sends : streamEnd(k)
  \/ \E k \in DOMAIN sends : sendResume(k)
  \/ \E k \in DOMAIN sends : ttsDone(k)
  \/ speechEnded
  \/ Render

\* any visit whose saved history holds no attachment
AnyLanguage == Init /\ (storage # <<>> => ~hasImages(storage[1][1].messages))

SpecLang == AnyLanguage /\ [][NextLang]_vars

(***************************************************************************)
(* generateStreamingResponse on every response the SDK may give            *)
(***************************************************************************)
NextService ==
  \/ Initialize
  \/ \E v \in Texts : onChangeText(v)
  \/ handleSend
  \/ \E k \in DOMAIN sends, c \in Items : streamChunk(k, c)
  \/ \E k \in DOMAIN sends : streamEnd(k)
  \/ \E k \in DOMAIN sends, ps \in ItemSeqs : imageResult(k, ps)
  \/ \E k \in DOMAIN sends : sdkError(k)
  \/ \E k \in DOMAIN sends : sendResume(k)
  \/ Render

SpecService == NoSavedLanguage /\ [][NextService]_vars

(***************************************************************************)
(* The input component                                                     *)
(***************************************************************************)
\* a selection holds a file once
FileLists == { fs \in UNION { [1..n -> Files] : n \in 0..MaxFiles } :
                 \A i, j \in DOMAIN fs : fs[i] = fs[j] => i = j }

NextInput ==
  \/ Initialize
  \/ \E v \in InputTexts : onChangeText(v)
  \/ \E fs \in FileLists : handleFileChange(fs)
  \/ \E r \in DOMAIN reads : onload(r)
  \/ \E i \in DOMAIN attachments : removeAttachment(i)
  \/ handleSend
  \/ \E k \in DOMAIN sends : streamEnd(k)
  \/ \E k \in DOMAIN sends : imageResult(k, <<>>)
  \/ \E k \in DOMAIN sends : sendResume(k)
  \/ Render

SpecInput == FirstVisit /\ [][NextInput]_vars


(***************************************************************************)
(* Properties                                                              *)
(***************************************************************************)
sessionIds(ss) == { ss[i].id : i \in DOMAIN ss }

messageIds(ss) == UNION { { ss[i].messages[j].id : j \in DOMAIN ss[i].messages }
                            : i \in DOMAIN ss }

\* the messages with id mid in the session sid of ss
messagesOf(ss, sid, mid) ==
  UNION { { ss[i].messages[j] : j \in { n \in DOMAIN ss[i].messages :
                                           ss[i].messages[n].id = mid } }
            : i \in { n \in DOMAIN ss : ss[n].id = sid } }

Last(q) == q[Len(q)]

\* C1: whenever the app is mounted and no queued update awaits its render,
\* the list stored under 'gemini_sessions' is the in-memory session list.
C1_StoredEqualsMemory ==
  (mounted /\ ~renderPending) => storage = << JSONstringify(sessions) >>

\* C2: in every reachable state no two sessions share an id and no two
\* messages of one session share an id, in the rendered list and in the list
\* with the queued updates applied.
uniqueIds(ss) ==
  /\ \A i, j \in DOMAIN ss : ss[i].id = ss[j].id => i = j
  /\ \A i \in DOMAIN ss : \A a, b \in DOMAIN ss[i].messages :
        ss[i].messages[a].id = ss[i].messages[b].id => a = b

C2_UniqueIds == uniqueIds(sessions) /\ uniqueIds(pendingSessions)

\* two sessions, one of them grown by a send or a live turn
C2_Witness ==
  /\ Len(pendingSessions) >= 2
  /\ \E i \in DOMAIN pendingSessions : Len(pendingSessions[i].messages) >= 3

\* C3: a step that applies chunks of a response leaves the placeholder of
\* that send with the concatenation of all chunks received so far, in
\* arrival order, and leaves the content of every other message of that
\* session as it was.
C3_ChunksInOrder ==
  [][ \A k \in DOMAIN sends :
        ( /\ k \in DOMAIN sends'
          /\ sends'[k].mid = sends[k].mid
          /\ sends'[k].onChunkCalls # sends[k].onChunkCalls )
        => \A i \in DOMAIN pendingSessions' :
             pendingSessions'[i].id = sends[k].sid =>
               /\ i \in DOMAIN pendingSessions
               /\ pendingSessions[i].id = sends[k].sid
               /\ Len(pendingSessions'[i].messages) = Len(pendingSessions[i].messages)
               /\ \A j \in DOMAIN pendingSessions'[i].messages :
                    pendingSessions'[i].messages[j].content =
                      IF pendingSessions'[i].messages[j].id = sends[k].mid
                        THEN Concat(sends'[k].onChunkCalls)
                        ELSE pendingSessions[i].messages[j].content ]_vars

\* two different chunks have arrived on the stream and the placeholder shows
\* them in that order
C3_Witness ==
  \E k \in DOMAIN sends :
    /\ sends[k].onChunkCalls = << <<"a">>, <<"b">> >>
    /\ \E m \in messagesOf(pendingSessions, sends[k].sid, sends[k].mid) :
         m.content = <<"a", "b">>

\* C4: a step that delivers chunks or images of a response, or completes it,
\* changes nothing but the placeholder of the session the message was sent
\* in, gives that placeholder the text received so far, the image received
\* last and, on completion, isStreaming = false, whichever session is
\* current.
delivered(k) ==
  /\ k \in DOMAIN sends'
  /\ sends'[k].mid = sends[k].mid
  /\ \/ sends'[k].onChunkCalls # sends[k].onChunkCalls
     \/ sends'[k].onImageCalls # sends[k].onImageCalls

completed(k) ==
  /\ sends[k].pc = "returned"
  /\ k \in DOMAIN sends' => sends'[k].pc # "returned"

C4_AppliedToOwnSession ==
  [][ \A k \in DOMAIN sends :
        (delivered(k) \/ completed(k))
        => /\ Len(pendingSessions') = Len(pendingSessions)
           /\ \A i \in DOMAIN pendingSessions :
                LET s == pendingSessions[i]
                    t == pendingSessions'[i]
                IN IF s.id # sends[k].sid
                     THEN t = s
                     ELSE /\ t.id = s.id /\ t.title = s.title
                          /\ t.isKidMode = s.isKidMode
                          /\ Len(t.messages) = Len(s.messages)
                          /\ \A j \in DOMAIN s.messages :
                               LET m == s.messages[j] IN
                               IF m.id # sends[k].mid
                                 THEN t.messages[j] = m
                                 ELSE t.messages[j] =
                                   [m EXCEPT
                                      !.content =
                                         IF delivered(k)
                                              /\ sends'[k].onChunkCalls # sends[k].onChunkCalls
                                           THEN sends'[k].fullResponse ELSE @,
                                      !.generatedImage =
                                         IF delivered(k)
                                              /\ sends'[k].onImageCalls # sends[k].onImageCalls
                                           THEN << Last(sends'[k].onImageCalls) >> ELSE @,
                                      !.isStreaming =
                                         IF completed(k) THEN <<FALSE>> ELSE @] ]_vars

\* text has reached the placeholder since the last render while another
\* session is the current one
C4_Witness ==
  \E k \in DOMAIN sends :
    /\ currentSessionId # sends[k].sid
    /\ renderPending
    /\ \E m \in messagesOf(pendingSessions, sends[k].sid, sends[k].mid) :
         /\ m.content # <<>>
         /\ m \notin messagesOf(sessions, sends[k].sid, sends[k].mid)

\* C5 as stated: on both paths every non-empty text of the response is passed
\* to onChunk once, in order, and every inline image to onImageGenerated
\* once.
nonEmptyTexts(items) ==
  LET withText == SelectSeq(items, LAMBDA it : it.text # <<>>)
  IN [i \in DOMAIN withText |-> withText[i].text]

inlineImages(items) ==
  LET withImage == SelectSeq(items, LAMBDA it : it.images # <<>>)
  IN [i \in DOMAIN withImage |-> withImage[i].images[1]]

C5_ForwardsEverything ==
  \A k \in DOMAIN sends :
    /\ sends[k].onChunkCalls = nonEmptyTexts(sends[k].sdkOut)
    /\ sends[k].onImageCalls = inlineImages(sends[k].sdkOut)

\* C5, amended: every non-empty text is passed to onChunk once, in order, on
\* both paths; inline images are passed to onImageGenerated once each on the
\* single-call image path and not at all on the streaming path.
C5_ForwardsTextAndResultImages ==
  \A k \in DOMAIN sends :
    /\ sends[k].onChunkCalls = nonEmptyTexts(sends[k].sdkOut)
    /\ sends[k].onImageCalls =
         IF sends[k].hasImages THEN inlineImages(sends[k].sdkOut) ELSE <<>>

\* a single result with a text and an image has been forwarded, and so has a
\* stream that carried an empty chunk
C5_Witness ==
  \E k \in DOMAIN sends :
    /\ sends[k].pc = "returned"
    /\ \/ /\ sends[k].hasImages
          /\ sends[k].onChunkCalls # <<>>
          /\ sends[k].onImageCalls # <<>>
       \/ /\ ~sends[k].hasImages
          /\ sends[k].onChunkCalls # <<>>
          /\ Len(sends[k].onChunkCalls) < Len(sends[k].sdkOut)

\* C6: a startLiveMode call that stopLiveMode has run after holds no open
\* live session, and isLive is false as long as no call was made after the
\* last stopLiveMode.
C6_StoppedMeansClosed ==
  /\ \A l \in DOMAIN lives : lives[l].stopSeen => lives[l].pc # "open"
  /\ (lives # <<>> /\ \A l \in DOMAIN lives : lives[l].stopSeen) => ~isLive

\* C7: every buffer is started at the later of the clock of its live session,
\* as read for it, and the end of the buffer scheduled before it in that
\* session; at the clock alone when it is the first of its session.  (After
\* a buffer that was stopped, either start is accepted.)
\* when a source begins to play: start(when) with a time that has passed
\* plays at once
startsAt(b) == Max(b.start, b.readAt)

C7_GaplessPerSession ==
  \A i \in DOMAIN scheduled :
    LET b == scheduled[i]
        earlier == { j \in 1..(i - 1) : scheduled[j].live = b.live }
    IN IF earlier = {}
         THEN startsAt(b) = b.readAt
         ELSE LET p == scheduled[CHOOSE j \in earlier : \A n \in earlier : n <= j]
              IN \/ startsAt(b) = Max(b.readAt, startsAt(p) + p.duration)
                 \/ p.stopped /\ startsAt(b) = b.readAt

\* C8: handleFileChange, when it completes, appends one attachment per
\* selected file, in selection order, with the type and the base64 payload
\* of the file; removeAttachment(i) removes the element at index i and keeps
\* the rest in order; a send gives the SDK the text followed by one
\* inline-data part per attachment, in order.
C8_FilesBecomeParts ==
  [][ /\ \A r \in DOMAIN reads :
           (onload(r) /\ Len(reads') < Len(reads))
           => /\ Len(attachments') = Len(attachments) + Len(reads[r].files)
              /\ SubSeq(attachments', 1, Len(attachments)) = attachments
              /\ \A i \in DOMAIN reads[r].files :
                   /\ attachments'[Len(attachments) + i].mimeType = reads[r].files[i].type
                   /\ attachments'[Len(attachments) + i].data = reads[r].files[i].b64
      /\ \A x \in DOMAIN attachments :
           removeAttachment(x)
           => /\ Len(attachments') = Len(attachments) - 1
              /\ \A j \in DOMAIN attachments' :
                   attachments'[j] = IF j < x THEN attachments[j] ELSE attachments[j + 1]
      /\ (handleSend /\ Len(sends') > Len(sends))
           => LET request == Last(sends').contents
                  parts == Last(request).parts
              IN /\ Last(request).role = "user"
                 /\ Len(parts) = 1 + Len(attachments)
                 /\ parts[1] = [inlineData |-> <<>>, text |-> << text >>]
                 /\ \A i \in DOMAIN attachments :
                      parts[i + 1] =
                        [ inlineData |-> << [mimeType |-> attachments[i].mimeType,
                                             data |-> attachments[i].data] >>,
                          text |-> <<>> ] ]_vars

\* two files of one selection went out with a message, in selection order
C8_Witness ==
  \E k \in DOMAIN sends :
    LET parts == Last(sends[k].contents).parts
    IN /\ Len(parts) = 3
       /\ parts[2].inlineData[1] = [mimeType |-> "image/gif", data |-> <<"Qg">>]
       /\ parts[3].inlineData[1] = [mimeType |-> "image/png", data |-> <<"QQ">>]

\* C9: createNewSession puts a session with a fresh id, kid mode off and a
\* model greeting as its only message at the front of the list and makes it
\* current; the sessions that existed follow it unchanged, in their order.
greetings == { translations(l).welcome : l \in Languages }

C9_NewSessionAtFront ==
  [][ createNewSession
      => /\ Len(pendingSessions') = Len(pendingSessions) + 1
         /\ Tail(pendingSessions') = pendingSessions
         /\ sessions' = pendingSessions'
         /\ LET new == Head(pendingSessions')
            IN /\ currentSessionId' = new.id
               /\ new.id \notin sessionIds(pendingSessions) \cup sessionIds(sessions)
               /\ ~new.isKidMode
               /\ Len(new.messages) = 1
               /\ new.messages[1].role = MODEL
               /\ new.messages[1].content \in greetings
               /\ new.messages[1].id \notin
                    messageIds(pendingSessions) \cup messageIds(sessions) \cup {new.id} ]_vars

\* a fresh session is current and in front of a session that holds a
\* conversation
C9_Witness ==
  /\ Len(sessions) >= 2
  /\ currentSessionId = sessions[1].id
  /\ Len(sessions[1].messages) = 1
  /\ sessions[1].id < 91
  /\ Len(sessions[2].messages) > 1

\* C10: deleteSession(id) removes the session with that id and nothing else:
\* every other session keeps its place and its messages with all the text
\* queued for them; and no step other than createNewSession brings a session
\* into the list.
C10_DeleteLosesNothing ==
  [][ /\ \A i \in DOMAIN sessions :
           deleteSession(sessions[i].id)
           => pendingSessions' = filterOut(pendingSessions, sessions[i].id)
      /\ (mounted /\ ~createNewSession)
           => sessionIds(pendingSessions') \subseteq sessionIds(pendingSessions) ]_vars

\* C11: at most one live session is open at any time, and a session whose
\* connection is established is the one liveSessionRef refers to.
C11_OneLiveSession ==
  /\ \A a, b \in DOMAIN lives : (isOpen(a) /\ isOpen(b)) => a = b
  /\ \A l \in DOMAIN lives : lives[l].pc = "open" => liveSessionRef = l

\* C14: once an interrupted message has been handled, no source of an audio
\* message received before it is still active without having been stopped,
\* and the first audio buffer received after it is started at the clock of
\* its output context, as read for it.
C14_InterruptCutsAudio ==
  \A i \in DOMAIN scheduled :
    /\ scheduled[i].cut => (scheduled[i].stopped \/ i \notin audioSourcesRef)
    /\ scheduled[i].first => startsAt(scheduled[i]) = scheduled[i].readAt

\* C12: whenever isLoading is false, no message of any session has
\* isStreaming = true once the queued updates are applied.
streaming(ss) ==
  \E i \in DOMAIN ss : \E j \in DOMAIN ss[i].messages :
    ss[i].messages[j].isStreaming = <<TRUE>>

C12_NoStreamingWhenIdle ==
  ~isLoading => ~streaming(pendingSessions)

\* C13: a message that completes a turn while transcription has accumulated
\* appends a user message with the accumulated input (or '[Audio]') and a
\* model message with the accumulated output (or '[Audio Response]'), in
\* that order, to the session that was current when its live session was
\* started, changes no other session and empties both accumulators; any other
\* message appends nothing.
C13_TurnAppended ==
  [][ \A l \in DOMAIN lives : \A m \in TextMessages :
        onmessage(l, m)
        => LET input == transcriptionRef.input \o Concat(m.inputTranscription)
               output == transcriptionRef.output \o Concat(m.outputTranscription)
           IN IF m.turnComplete /\ (input # <<>> \/ output # <<>>)
                THEN /\ transcriptionRef' = [input |-> <<>>, output |-> <<>>]
                     /\ Len(pendingSessions') = Len(pendingSessions)
                     /\ \A i \in DOMAIN pendingSessions :
                          LET s == pendingSessions[i]
                              t == pendingSessions'[i]
                              n == Len(s.messages)
                          IN IF s.id # lives[l].sid
                               THEN t = s
                               ELSE /\ [t EXCEPT !.messages = s.messages] = s
                                    /\ Len(t.messages) = n + 2
                                    /\ SubSeq(t.messages, 1, n) = s.messages
                                    /\ t.messages[n + 1].role = USER
                                    /\ t.messages[n + 1].content =
                                         IF input # <<>> THEN input ELSE <<"[Audio]">>
                                    /\ t.messages[n + 2].role = MODEL
                                    /\ t.messages[n + 2].content =
                                         IF output # <<>> THEN output
                                         ELSE <<"[Audio Response]">>
                ELSE /\ pendingSessions' = pendingSessions
                     /\ transcriptionRef' = [input |-> input, output |-> output] ]_vars

\* a turn with input only, accumulated over two messages, was appended to a
\* session that is no longer the current one
C13_Witness ==
  \E i \in DOMAIN pendingSessions :
    LET s == pendingSessions[i]
        n == Len(s.messages)
    IN /\ s.id # currentSessionId
       /\ n >= 3
       /\ s.messages[n - 1].content = <<"v", "v">>
       /\ s.messages[n].content = <<"[Audio Response]">>
       /\ transcriptionRef = [input |-> <<>>, output |-> <<>>]

\* C15: whenever the app is mounted and no queued update awaits its render,
\* a current session that holds only its greeting shows the greeting of the
\* selected language, the kid greeting in kid mode and the standard one
\* otherwise; and no step rewrites the first message of a session that has
\* more than one message.
greetingShown ==
  (mounted /\ ~renderPending /\ currentSessionId # Null)
  => \A i \in DOMAIN sessions :
       (sessions[i].id = currentSessionId /\ Len(sessions[i].messages) = 1)
       => sessions[i].messages[1].content =
            IF sessions[i].isKidMode THEN translations(language).kidWelcome
                                     ELSE translations(language).welcome

firstMessageKept ==
  \A i \in DOMAIN pendingSessions : \A j \in DOMAIN pendingSessions' :
    ( /\ pendingSessions'[j].id = pendingSessions[i].id
      /\ Len(pendingSessions[i].messages) > 1 )
    => /\ Len(pendingSessions'[j].messages) >= 1
       /\ pendingSessions'[j].messages[1] = pendingSessions[i].messages[1]

C15_GreetingFollows == [] greetingShown /\ [][firstMessageKept]_vars

\* a session created in English shows the kid greeting in Portuguese, next
\* to a session that holds a conversation
C15_Witness ==
  /\ mounted /\ language = "pt"
  /\ \E i, j \in DOMAIN sessions :
       /\ sessions[i].id = currentSessionId
       /\ sessions[i].isKidMode
       /\ sessions[i].title = translations("en").newConversation
       /\ Len(sessions[i].messages) = 1
       /\ sessions[i].messages[1].content = translations("pt").kidWelcome
       /\ Len(sessions[j].messages) > 1

\* C18: a send that puts the first user message into a session sets the
\* title of the session to the first 30 characters of the text; a send into
\* a session that holds a conversation leaves its title as it is.
C18_TitleFromFirstMessage ==
  [][ (handleSend /\ Len(sends') > Len(sends))
      => \A i \in DOMAIN pendingSessions :
           pendingSessions[i].id = currentSessionId
           => pendingSessions'[i].title =
                IF Len(pendingSessions[i].messages) = 1
                  THEN SubSeq(text, 1, IF Len(text) < 30 THEN Len(text) ELSE 30)
                  ELSE pendingSessions[i].title ]_vars

\* C16: when the SDK call fails, before or after some chunks, the service
\* rethrows and changes no session; handleSendMessage then ends the send
\* with isLoading false and leaves every session, the user's message and
\* the text already streamed included, as it was.
C16_FailureKeepsMessages ==
  [][ \A k \in DOMAIN sends :
        /\ sdkError(k)
             => /\ sends'[k].pc = "thrown"
                /\ sends'[k].fullResponse = sends[k].fullResponse
                /\ pendingSessions' = pendingSessions
                /\ sessions' = sessions
        /\ (sends[k].pc = "thrown" /\ sendResume(k))
             => /\ ~isLoading'
                /\ Len(sends') = Len(sends) - 1
                /\ pendingSessions' = pendingSessions
                /\ sessions' = sessions ]_vars

\* a send has ended by a failure after the first chunk: the text streamed is
\* still in the placeholder, after the user's message
C16_Witness ==
  /\ ~isLoading
  /\ sends = <<>>
  /\ \E i \in DOMAIN pendingSessions :
       LET ms == pendingSessions[i].messages
       IN /\ Len(ms) = 3
          /\ ms[2].role = USER /\ ms[2].content = <<"h">>
          /\ ms[3].content = <<"a">> /\ ms[3].isStreaming = <<TRUE>>

\* C17 as stated: handleSend calls onSendMessage only with a text that is not
\* blank or a pending attachment, never while isLoading or live mode is on,
\* and handleSendMessage is not entered before the previous send, its
\* kid-mode speech playback included, has finished.
sendGuarded ==
  handleSend
  => /\ trim(text) # <<>> \/ Len(attachments) > 0
     /\ ~isLoading
     /\ ~isLive
     /\ sends = <<>>

C17_OneSendIncludingSpeech ==
  [] (Len(sends) <= 1) /\ [][sendGuarded /\ (handleSend => speaking = 0)]_vars

\* C17, amended: the same, a kid-mode send being finished when
\* playResponseAudio has returned, that is when the speech was fetched and
\* its playback started, not when the speech has been played.
C17_OneSendInFlight ==
  [] (Len(sends) <= 1) /\ [][sendGuarded]_vars

\* the second send is in flight while the speech of the first still plays
C17_Witness ==
  /\ Len(sends) = 1
  /\ sends[1].mid = 4
  /\ isLoading
  /\ speaking > 0

\* C19: currentSessionId is null or the id of a session of the list, and
\* null only when the list is empty; deleting the current session makes the
\* first remaining session current, deleting another one leaves the
\* selection; a send with no current session changes no session and leaves
\* isLoading.
validCurrent(ss) ==
  /\ currentSessionId = Null \/ currentSessionId \in sessionIds(ss)
  /\ currentSessionId = Null => ss = <<>>

C19_CurrentSessionValid ==
  /\ [] (validCurrent(sessions) /\ validCurrent(pendingSessions))
  /\ [][ /\ \A i \in DOMAIN sessions :
              deleteSession(sessions[i].id)
              => currentSessionId' =
                   IF sessions[i].id # currentSessionId THEN currentSessionId
                   ELSE IF Len(sessions) = 1 THEN Null
                   ELSE IF i = 1 THEN sessions[2].id ELSE sessions[1].id
         /\ (handleSend /\ currentSessionId = Null)
              => UNCHANGED << sessions, pendingSessions, isLoading, sends >> ]_vars

\* the current session was deleted and the first of the remaining sessions
\* has become current
C19_Witness ==
  /\ Len(sessions) = 2
  /\ nextId = 5
  /\ sessions[2].id = 91
  /\ currentSessionId = sessions[1].id
  /\ sessions[1].id = 1
  /\ Len(sessions[1].messages) = 1

\* C20: in every step, for each session that is there before and after it,
\* the messages it had are still there, in their places, followed by those
\* the step added; a send adds a user message and an empty model placeholder;
\* a message that was there differs at most in the content, the image and
\* the streaming flag of a placeholder, or in the content of a lone
\* greeting.
appendOnly(old, new) ==
  /\ Len(new) >= Len(old)
  /\ \A n \in DOMAIN old :
       /\ new[n].id = old[n].id
       /\ new[n] # old[n]
            => \/ /\ old[n].isStreaming # <<>>
                  /\ [new[n] EXCEPT !.content = old[n].content,
                                    !.generatedImage = old[n].generatedImage,
                                    !.isStreaming = old[n].isStreaming] = old[n]
               \/ /\ Len(old) = 1
                  /\ [new[n] EXCEPT !.content = old[n].content] = old[n]

C20_AppendOnly ==
  [][ \A i \in DOMAIN pendingSessions : \A j \in DOMAIN pendingSessions' :
        pendingSessions'[j].id = pendingSessions[i].id
        => LET old == pendingSessions[i].messages
               new == pendingSessions'[j].messages
           IN /\ appendOnly(old, new)
              /\ ( /\ handleSend
                   /\ Len(sends') > Len(sends)
                   /\ pendingSessions[i].id = currentSessionId )
                   => /\ Len(new) = Len(old) + 2
                      /\ new[Len(old) + 1].role = USER
                      /\ new[Len(old) + 2] =
                           Message(Last(sends').mid, MODEL, <<>>, <<>>, <<TRUE>>) ]_vars

=============================================================================
